---- MODULE Spec2Model ----
(***************************************************************************)
(* Chess-club tournament manager: the Tournament model (Swiss pairing,     *)
(* result recording, JSON save/load) and the controllers that drive it.    *)
(*                                                                         *)
(* Conventions of the model                                                *)
(*  - a player is identified by its national_id, here 1..NumPlayers; the   *)
(*    ids are numbered in (last_name, first_name) order, so sorting by     *)
(*    name is sorting by id;                                               *)
(*  - scores and points are counted in half points: 1-0 is <<2, 0>>,       *)
(*    0.5-0.5 is <<1, 1>>;                                                 *)
(*  - statuses: "NotStarted" is "non démarré", "InProgress" is "en cours", *)
(*    "Finished" is "terminé";                                             *)
(*  - end_time is kept as the boolean `closed` (the code only tests it for *)
(*    truthiness); start_time is always set at construction;               *)
(*  - a history entry keeps its Python type: `tup` is TRUE for a tuple     *)
(*    appended by _build_pairs and FALSE for a list read back from JSON.   *)
(*  - one tournament file is modelled; its name is never edited.           *)
(***************************************************************************)
EXTENDS Integers, Sequences, FiniteSets, TLC

\* Bounds of the model
\*   NumPlayers   players of players.json when the roster is edited
\*   MaxRoster    longest roster the roster editor is run on
\*   SwissPlayers players of players.json, all registered, in SpecSwiss
\*   MaxRounds    largest total_rounds entered
\*   MaxEntries   longest list handed to record_results in SpecRecord
\*   FinalPlayers players of the tournament played to its end in SpecFinal
\*   FinalRounds  its total_rounds
NumPlayers == 3
MaxRoster == 2
SwissPlayers == 4
MaxRounds == 2
MaxEntries == 2
FinalPlayers == 6
FinalRounds == 3

Max(S) == CHOOSE x \in S : \A y \in S : x >= y

PlayerIds == 1..Max({NumPlayers, SwissPlayers, FinalPlayers})
RoundCounts == 1..MaxRounds

NotStarted == "NotStarted"
InProgress == "InProgress"
Finished == "Finished"

\* The three accepted inputs of _collect_scores: "1-0", "0-1", "0.5-0.5"
ValidScores == {<<2, 0>>, <<0, 2>>, <<1, 1>>}

ZeroPoints == [p \in PlayerIds |-> 0]

Min(S) == CHOOSE x \in S : \A y \in S : x <= y

RemoveAt(s, k) == SubSeq(s, 1, k - 1) \o SubSeq(s, k + 1, Len(s))

(***************************************************************************)
(* models/match.py, models/round.py                                        *)
(***************************************************************************)
Match(player1, player2, score1, score2) ==
    [p1 |-> player1, p2 |-> player2, s1 |-> score1, s2 |-> score2]

Round(ms) == [matches |-> ms, closed |-> FALSE]

RoundClose(rnd) == [rnd EXCEPT !.closed = TRUE]

(***************************************************************************)
(* models/tournament.py: construction                                      *)
(***************************************************************************)
Tournament(totalRounds) ==
    [status |-> NotStarted,
     current_round_index |-> 0,
     total_rounds |-> totalRounds,
     players |-> <<>>,
     rounds |-> <<>>,
     history |-> <<>>,
     points |-> ZeroPoints]

(***************************************************************************)
(* models/tournament.py: pairing                                           *)
(***************************************************************************)
\* random.shuffle: every permutation of the list is a possible outcome
Perms(n) == {f \in [1..n -> 1..n] : \A i, j \in 1..n : i # j => f[i] # f[j]}

Shuffle(s) == {[i \in 1..Len(s) |-> s[f[i]]] : f \in Perms(Len(s))}

\* the sort with reverse=True left out: ascending
RECURSIVE SortByPointsAsc(_, _)
SortByPointsAsc(s, pts) ==
    IF s = <<>> THEN <<>>
    ELSE LET n == Len(s)
             init == SortByPointsAsc(SubSeq(s, 1, n - 1), pts)
             x == s[n]
             k == Cardinality({i \in 1..Len(init) : pts[init[i]] <= pts[x]})
         IN SubSeq(init, 1, k) \o <<x>> \o SubSeq(init, k + 1, Len(init))

\* list.sort(key=points, reverse=True): stable, descending
RECURSIVE SortByPointsDesc(_, _)
SortByPointsDesc(s, pts) ==
    IF s = <<>> THEN <<>>
    ELSE LET n == Len(s)
             init == SortByPointsDesc(SubSeq(s, 1, n - 1), pts)
             x == s[n]
             k == Cardinality({i \in 1..Len(init) : pts[init[i]] >= pts[x]})
         IN SubSeq(init, 1, k) \o <<x>> \o SubSeq(init, k + 1, Len(init))

\* end (exclusive) of the run of equal points starting at index i
RECURSIVE RunEnd(_, _, _, _)
RunEnd(s, pts, i, j) ==
    IF j <= Len(s) /\ pts[s[j]] = pts[s[i]] THEN RunEnd(s, pts, i, j + 1) ELSE j

RECURSIVE ShuffleEqualPointsGroups(_, _)
ShuffleEqualPointsGroups(s, pts) ==
    IF s = <<>> THEN {<<>>}
    ELSE LET j == RunEnd(s, pts, 1, 2)
             subsets == Shuffle(SubSeq(s, 1, j - 1))
             rests == ShuffleEqualPointsGroups(SubSeq(s, j, Len(s)), pts)
         IN {a \o b : a \in subsets, b \in rests}

\* the orders self.players can have after _prepare_players_order
PreparePlayersOrder(t) ==
    IF t.current_round_index = 0
    THEN Shuffle(t.players)
    ELSE ShuffleEqualPointsGroups(SortByPointsDesc(t.players, t.points), t.points)

\* `duo in self.history`: a tuple equals a tuple with the same items, and
\* never equals a list
DuoInHistory(a, b, history) ==
    \E i \in 1..Len(history) :
        history[i].tup /\ history[i].a = a /\ history[i].b = b

FindPartnerIndex(p1, remaining, history) ==
    LET fresh == {k \in 1..Len(remaining) :
                    /\ ~DuoInHistory(p1, remaining[k], history)
                    /\ ~DuoInHistory(remaining[k], p1, history)}
    IN IF fresh # {} THEN Min(fresh) ELSE 1

\* _build_pairs without the append to self.history
RECURSIVE BuildPairsLoopNoHistory(_, _, _)
BuildPairsLoopNoHistory(remaining, pairs, history) ==
    IF remaining = <<>> THEN [pairs |-> pairs, history |-> history]
    ELSE LET p1 == Head(remaining)
             rest == Tail(remaining)
             partner_idx == FindPartnerIndex(p1, rest, history)
             p2 == rest[partner_idx]
         IN BuildPairsLoopNoHistory(RemoveAt(rest, partner_idx),
                           Append(pairs, Match(p1, p2, 0, 0)),
                           history)

\* the while loop ended while two players are still in the pool
RECURSIVE BuildPairsLoopStopEarly(_, _, _)
BuildPairsLoopStopEarly(remaining, pairs, history) ==
    IF Len(remaining) <= 2 THEN [pairs |-> pairs, history |-> history]
    ELSE LET p1 == Head(remaining)
             rest == Tail(remaining)
             partner_idx == FindPartnerIndex(p1, rest, history)
             p2 == rest[partner_idx]
         IN BuildPairsLoopStopEarly(RemoveAt(rest, partner_idx),
                           Append(pairs, Match(p1, p2, 0, 0)),
                           Append(history, [a |-> p1, b |-> p2, tup |-> TRUE]))

RECURSIVE BuildPairsLoop(_, _, _)
BuildPairsLoop(remaining, pairs, history) ==
    IF remaining = <<>> THEN [pairs |-> pairs, history |-> history]
    ELSE LET p1 == Head(remaining)
             rest == Tail(remaining)
             partner_idx == FindPartnerIndex(p1, rest, history)
             p2 == rest[partner_idx]
         IN BuildPairsLoop(RemoveAt(rest, partner_idx),
                           Append(pairs, Match(p1, p2, 0, 0)),
                           Append(history, [a |-> p1, b |-> p2, tup |-> TRUE]))

BuildPairs(order, history) == BuildPairsLoop(order, <<>>, history)

CheckEvenPlayers(t) == Len(t.players) % 2 = 0

\* Tournament.start_next_round raises ValueError, before any mutation, when
\* this is false
StartNextRoundAllowed(t) ==
    /\ t.current_round_index < t.total_rounds
    /\ CheckEvenPlayers(t)

\* Tournament.start_next_round with the increment of the index left out
StartNextRoundNoIncrement(t) ==
    {LET bp == BuildPairs(order, t.history)
     IN [t EXCEPT !.players = order,
                  !.rounds = Append(@, Round(bp.pairs)),
                  !.history = bp.history,
                  !.status = InProgress] : order \in PreparePlayersOrder(t)}

\* Tournament.start_next_round: the tournaments it can leave, one per
\* outcome of the shuffles
StartNextRound(t) ==
    {LET bp == BuildPairs(order, t.history)
     IN [t EXCEPT !.players = order,
                  !.rounds = Append(@, Round(bp.pairs)),
                  !.history = bp.history,
                  !.current_round_index = @ + 1,
                  !.status = InProgress] : order \in PreparePlayersOrder(t)}

(***************************************************************************)
(* models/tournament.py: result recording                                  *)
(***************************************************************************)
\* the loop of record_results with the two scores given to the wrong players
RECURSIVE ApplyResultsSwapped(_, _)
ApplyResultsSwapped(t, results) ==
    IF results = <<>> THEN t
    ELSE LET e == Head(results)
             m == t.rounds[e[1]].matches[e[2]]
             pts1 == [t.points EXCEPT ![m.p1] = @ + e[4]]
             pts2 == [pts1 EXCEPT ![m.p2] = @ + e[3]]
             t1 == [t EXCEPT !.rounds[e[1]].matches[e[2]].s1 = e[3],
                             !.rounds[e[1]].matches[e[2]].s2 = e[4],
                             !.points = pts2]
         IN ApplyResultsSwapped(t1, Tail(results))

\* results: sequence of <<r_idx, m_idx, s1, s2>>, indices 1-based here
RECURSIVE ApplyResults(_, _)
ApplyResults(t, results) ==
    IF results = <<>> THEN t
    ELSE LET e == Head(results)
             m == t.rounds[e[1]].matches[e[2]]
             pts1 == [t.points EXCEPT ![m.p1] = @ + e[3]]
             pts2 == [pts1 EXCEPT ![m.p2] = @ + e[4]]
             t1 == [t EXCEPT !.rounds[e[1]].matches[e[2]].s1 = e[3],
                             !.rounds[e[1]].matches[e[2]].s2 = e[4],
                             !.points = pts2]
         IN ApplyResults(t1, Tail(results))

\* RecordResults with the end test one round early
RecordResultsOneEarly(t, results) ==
    LET t1 == ApplyResults(t, results)
        t2 == [t1 EXCEPT !.rounds[t1.current_round_index] = RoundClose(@)]
    IN IF t2.current_round_index >= t2.total_rounds - 1
       THEN [t2 EXCEPT !.status = Finished]
       ELSE t2

RecordResults(t, results) ==
    LET t1 == ApplyResults(t, results)
        t2 == [t1 EXCEPT !.rounds[t1.current_round_index] = RoundClose(@)]
    IN IF t2.current_round_index >= t2.total_rounds
       THEN [t2 EXCEPT !.status = Finished]
       ELSE t2

(***************************************************************************)
(* models/tournament.py: persistence                                       *)
(***************************************************************************)
\* json.dump writes a tuple as an array, json.load reads an array as a list
JsonRoundTrip(history) ==
    [i \in 1..Len(history) |-> [history[i] EXCEPT !.tup = FALSE]]

BuildTournamentData(t) ==
    [status |-> t.status,
     current_round_index |-> t.current_round_index,
     total_rounds |-> t.total_rounds,
     players |-> t.players,
     rounds |-> t.rounds,
     history |-> t.history]

\* the content of the tournament's file after save()
Save(t) == [BuildTournamentData(t) EXCEPT !.history = JsonRoundTrip(@)]

RECURSIVE AddMatchPoints(_, _)
AddMatchPoints(pts, ms) ==
    IF ms = <<>> THEN pts
    ELSE LET m == Head(ms)
             pts1 == [pts EXCEPT ![m.p1] = @ + m.s1]
             pts2 == [pts1 EXCEPT ![m.p2] = @ + m.s2]
         IN AddMatchPoints(pts2, Tail(ms))

RECURSIVE AddRoundPoints(_, _)
AddRoundPoints(pts, rnds) ==
    IF rnds = <<>> THEN pts
    ELSE AddRoundPoints(AddMatchPoints(pts, Head(rnds).matches), Tail(rnds))

RecalculatePoints(t) ==
    [t EXCEPT !.points = AddRoundPoints(ZeroPoints, t.rounds)]

Load(raw) ==
    RecalculatePoints(
        [status |-> raw.status,
         current_round_index |-> raw.current_round_index,
         total_rounds |-> raw.total_rounds,
         players |-> raw.players,
         rounds |-> raw.rounds,
         history |-> raw.history,
         points |-> ZeroPoints])

(***************************************************************************)
(* State.                                                                  *)
(* disk     : the content of the tournament's JSON file                    *)
(* mem      : each controller object's in-memory Tournament (the entry of  *)
(*            its own _tournaments list)                                   *)
(* registry : the ids of players.json                                      *)
(* cur      : the ids whose current Player.registry object is in the       *)
(*            roster held by the controller that edits rosters             *)
(*            (`p not in tournament.players` compares objects, and         *)
(*            Player.load_all() replaces every object of the registry)     *)
(* outcome  : what the last operation reported                             *)
(*                                                                         *)
(* MainController builds one controller object per menu group:             *)
(*   "mgmt"    tour_ctrl  (TournamentManagement)                           *)
(*   "players" tour_ctrl3 (manage_players_in_tournament)                   *)
(*   "rounds"  tour_ctrl4 (TournamentRound)                                *)
(* and tournament_controller_main.py combines the sub-controllers          *)
(* tournament_players, tournament_start, tournament_scores,                *)
(* tournament_next_round, tournament_modification and tournament_utils     *)
(* into one object:                                                        *)
(*   "tc"      TournamentController                                        *)
(***************************************************************************)
VARIABLES disk, mem, registry, cur, outcome

vars == <<disk, mem, registry, cur, outcome>>

\* the operation last run and what it reported
Out(op, msg) == [op |-> op, msg |-> msg]

MainCtl == {"mgmt", "players", "rounds"}

\* TournamentControllerBase.__init__ / _load, for each controller object
LoadControllers(cs) == [c \in cs |-> Load(disk)]

\* The application is started on a data directory holding one tournament
\* that was created and saved, with no player registered in it yet
Init ==
    /\ disk \in {Save(Tournament(r)) : r \in RoundCounts}
    /\ mem = LoadControllers(MainCtl)
    /\ registry = 1..NumPlayers
    /\ cur = {}
    /\ outcome = Out("init", "loaded")

\* MainController.__init__: every controller loads the file, then
\* Player.load_all() replaces the registry
MainControllerInit ==
    /\ mem' = LoadControllers(MainCtl)
    /\ cur' = {}
    /\ outcome' = Out("init", "loaded")
    /\ UNCHANGED <<disk, registry>>

(***************************************************************************)
(* modify_tournament (tournament_management.py, tournament_modification.py)*)
(***************************************************************************)
\* _edit_rounds: empty input keeps the value, a positive integer replaces it
EditRounds(current) == RoundCounts \cup {current}

ModifyTournamentOn(c) ==
    \E n \in EditRounds(mem[c].total_rounds) :
        LET t == [mem[c] EXCEPT !.total_rounds = n]
        IN /\ mem' = [mem EXCEPT ![c] = t]
           /\ disk' = Save(t)
           /\ outcome' = Out("modify_tournament", "modified")
           /\ UNCHANGED <<registry, cur>>

ModifyTournament == ModifyTournamentOn("mgmt")

(***************************************************************************)
(* controllers/tournament_players.py                                       *)
(***************************************************************************)
\* players.sort(key=(last_name, first_name)) after appending p: stable, so p
\* lands behind the entries with the same id
InsertSorted(s, p) ==
    LET k == Cardinality({i \in 1..Len(s) : s[i] <= p})
    IN SubSeq(s, 1, k) \o <<p>> \o SubSeq(s, k + 1, Len(s))

\* _add_players: the registry players whose object is not in the roster
Available(reg, current) == reg \ current

\* manage_players_in_tournament, choice 1 with one number entered
AddPlayersOn(c) ==
    LET t == mem[c]
    IN IF t.status # NotStarted
       THEN /\ outcome' = Out("manage_players", "after_start")
            /\ UNCHANGED <<disk, mem, registry, cur>>
       ELSE \E p \in Available(registry, cur) :
               LET t1 == [t EXCEPT !.players = InsertSorted(@, p)]
               IN /\ Len(t.players) < MaxRoster
                  /\ mem' = [mem EXCEPT ![c] = t1]
                  /\ cur' = cur \cup {p}
                  /\ disk' = Save(t1)
                  /\ outcome' = Out("manage_players", "added")
                  /\ UNCHANGED registry

\* manage_players_in_tournament, choice 2 with one number entered and
\* confirmed: the object at index i leaves the roster
RemovePlayersOn(c) ==
    LET t == mem[c]
    IN IF t.status # NotStarted
       THEN /\ outcome' = Out("manage_players", "after_start")
            /\ UNCHANGED <<disk, mem, registry, cur>>
       ELSE \E i \in 1..Len(t.players) :
               LET t1 == [t EXCEPT !.players = RemoveAt(@, i)]
                   last == \A j \in (i + 1)..Len(t.players) :
                               t.players[j] # t.players[i]
               IN /\ mem' = [mem EXCEPT ![c] = t1]
                  /\ cur' = IF last THEN cur \ {t.players[i]} ELSE cur
                  /\ disk' = Save(t1)
                  /\ outcome' = Out("manage_players", "removed")
                  /\ UNCHANGED registry

AddPlayers == AddPlayersOn("players")

RemovePlayers == RemovePlayersOn("players")

(***************************************************************************)
(* controllers/tournament_rounds.py (TournamentRound): every operation     *)
(* first reloads the tournaments from the files                            *)
(***************************************************************************)
\* _can_start_tournament with the test of the number of players left out
CanStartTournamentNoParity(t) ==
    IF t.players = <<>> THEN "no_players"
    ELSE IF t.status = Finished THEN "finished"
    ELSE IF t.status = InProgress THEN "in_progress"
    ELSE "ok"

CanStartTournament(t) ==
    IF t.players = <<>> THEN "no_players"
    ELSE IF Len(t.players) < 2 \/ Len(t.players) % 2 # 0 THEN "odd_roster"
    ELSE IF t.status = Finished THEN "finished"
    ELSE IF t.status = InProgress THEN "in_progress"
    ELSE "ok"

\* _launch_tournament on controller c's tournament t
LaunchTournament(c, t) ==
    LET t1 == [t EXCEPT !.status = InProgress]
    IN IF ~StartNextRoundAllowed(t1)
       THEN /\ outcome' = Out("start_tournament", "ValueError")
            /\ mem' = [mem EXCEPT ![c] = t1]
            /\ UNCHANGED disk
       ELSE \E t2 \in StartNextRound(t1) :
               /\ mem' = [mem EXCEPT ![c] = t2]
               /\ disk' = Save(t2)
               /\ outcome' = Out("start_tournament", "tournament_started")

\* an operation that ends with a message and changes no tournament
Refuse(c, t, op, msg) ==
    /\ outcome' = Out(op, msg)
    /\ mem' = [mem EXCEPT ![c] = t]
    /\ UNCHANGED disk

StartTournament ==
    LET t == Load(disk)
    IN /\ cur' = {}
       /\ UNCHANGED registry
       /\ IF t.status # NotStarted THEN Refuse("rounds", t, "start_tournament", "none_not_started")
          ELSE IF CanStartTournament(t) # "ok"
          THEN Refuse("rounds", t, "start_tournament", CanStartTournament(t))
          ELSE LaunchTournament("rounds", t)

AllRoundsClosed(t) == \A i \in 1..Len(t.rounds) : t.rounds[i].closed

\* the check of the last round's end_time left out
NoRoundOpen(t) == FALSE

LastRoundOpen(t) == t.rounds # <<>> /\ ~t.rounds[Len(t.rounds)].closed

StartNextRoundCtl ==
    LET t == Load(disk)
    IN /\ cur' = {}
       /\ UNCHANGED registry
       /\ IF t.status # InProgress THEN Refuse("rounds", t, "start_next_round", "none_in_progress")
          ELSE IF LastRoundOpen(t) THEN Refuse("rounds", t, "start_next_round", "round_open")
          ELSE IF t.current_round_index >= t.total_rounds /\ AllRoundsClosed(t)
          THEN LET t1 == [t EXCEPT !.status = Finished]
               IN /\ outcome' = Out("start_next_round", "silent")
                  /\ mem' = [mem EXCEPT !["rounds"] = t1]
                  /\ disk' = Save(t1)
          ELSE IF ~StartNextRoundAllowed(t) THEN Refuse("rounds", t, "start_next_round", "ValueError")
          ELSE \E t1 \in StartNextRound(t) :
                  /\ mem' = [mem EXCEPT !["rounds"] = t1]
                  /\ disk' = Save(t1)
                  /\ outcome' = Out("start_next_round", "round_started")

\* CollectScores asking for the score of the first match only
CollectScoresFirstMatch(t) ==
    LET num == t.current_round_index
        n == Min({1, Len(t.rounds[Len(t.rounds)].matches)})
    IN {[i \in 1..n |-> <<num, i, sc[i][1], sc[i][2]>>] :
            sc \in [1..n -> ValidScores]}

\* _collect_scores: one valid score per match of the round, in match order
CollectScores(t) ==
    LET num == t.current_round_index
        n == Len(t.rounds[Len(t.rounds)].matches)
    IN {[i \in 1..n |-> <<num, i, sc[i][1], sc[i][2]>>] :
            sc \in [1..n -> ValidScores]}

CanEnterScores(t) ==
    IF t.status = NotStarted THEN "not_started"
    ELSE IF t.status = Finished THEN "finished"
    ELSE "ok"

\* (last_name.lower(), first_name.lower()) of the players of players.json,
\* as the rank of the key among the keys: the names are all different, and
\* the ids are numbered in the order of the names (as in InsertSorted)
NameKey == [p \in PlayerIds |-> p]

SeqSet(s) == {s[i] : i \in 1..Len(s)}

\* max(p.points for p in tournament.players)
TopScore(t) == Max({t.points[t.players[i]] : i \in 1..Len(t.players)})

\* [p for p in tournament.players if p.points == top_score], roster order
TopPlayers(t) ==
    LET top == TopScore(t)
        IsTop(p) == t.points[p] = top
    IN SelectSeq(t.players, IsTop)

\* the inner loop of the head-to-head search over the matches of one round,
\* from match i on: it ends at the first match between two top players,
\* with that match's victor, or with 0 (None) if the match is drawn or
\* there is no such match
RECURSIVE DuelInRound(_, _, _)
DuelInRound(ms, i, top) ==
    IF i > Len(ms) THEN 0
    ELSE IF {ms[i].p1, ms[i].p2} \subseteq top
    THEN IF ms[i].s1 > ms[i].s2 THEN ms[i].p1
         ELSE IF ms[i].s2 > ms[i].s1 THEN ms[i].p2
         ELSE 0
    ELSE DuelInRound(ms, i + 1, top)

\* the outer loop: the rounds in order, until one gives a winner
RECURSIVE DuelWinner(_, _, _)
DuelWinner(rnds, r, top) ==
    IF r > Len(rnds) THEN 0
    ELSE LET w == DuelInRound(rnds[r].matches, 1, top)
         IN IF w # 0 THEN w ELSE DuelWinner(rnds, r + 1, top)

\* sorted(top_players, key=names)[0] with the last one taken instead
AlphabeticalLast(top) ==
    top[Max({i \in 1..Len(top) :
                \A j \in 1..Len(top) : NameKey[top[i]] >= NameKey[top[j]]})]

\* sorted(top_players, key=names)[0]: the sort is stable
AlphabeticalFirst(top) ==
    top[Min({i \in 1..Len(top) :
                \A j \in 1..Len(top) : NameKey[top[i]] <= NameKey[top[j]]})]

\* the winner with the head-to-head search left out
WinnerNoDuel(t) ==
    LET top == TopPlayers(t)
    IN IF Len(top) = 1 THEN top[1] ELSE AlphabeticalFirst(top)

\* the winner taken among all the players of the roster
WinnerOfRoster(t) ==
    LET w == DuelWinner(t.rounds, 1, SeqSet(t.players))
    IN IF w # 0 THEN w ELSE AlphabeticalFirst(t.players)

\* _finaliser_tournoi_si_termine, the winner it announces
Winner(t) ==
    LET top == TopPlayers(t)
        w == DuelWinner(t.rounds, 1, SeqSet(top))
    IN IF Len(top) = 1 THEN top[1]
       ELSE IF w # 0 THEN w
       ELSE AlphabeticalFirst(top)

\* _finaliser_tournoi_si_termine, the part that changes the tournament
FinaliserTournoiSiTermine(t) == [t EXCEPT !.status = Finished]

EnterScoresCurrentRound ==
    LET t == Load(disk)
    IN /\ cur' = {}
       /\ UNCHANGED registry
       /\ IF t.status # InProgress THEN Refuse("rounds", t, "enter_scores", "none_in_progress")
          ELSE IF CanEnterScores(t) # "ok" THEN Refuse("rounds", t, "enter_scores", CanEnterScores(t))
          ELSE IF t.rounds[Len(t.rounds)].closed
          THEN Refuse("rounds", t, "enter_scores", "round_already_played")
          ELSE \E results \in CollectScores(t) :
                  LET t1 == RecordResults(t, results)
                      t2 == IF t1.current_round_index >= t1.total_rounds
                            THEN FinaliserTournoiSiTermine(t1)
                            ELSE t1
                  IN /\ mem' = [mem EXCEPT !["rounds"] = t2]
                     /\ disk' = Save(t2)
                     /\ outcome' = Out("enter_scores", "scores_recorded")

(***************************************************************************)
(* views/console_view.py                                                   *)
(***************************************************************************)
\* show_leaderboard: sorted(tournament.players, key=points, reverse=True),
\* the list it prints
ShowLeaderboard(t) == SortByPointsDesc(t.players, t.points)

(***************************************************************************)
(* The MainController application                                          *)
(***************************************************************************)
Next ==
    \/ MainControllerInit
    \/ ModifyTournament
    \/ AddPlayers
    \/ RemovePlayers
    \/ StartTournament
    \/ StartNextRoundCtl
    \/ EnterScoresCurrentRound

Spec == Init /\ [][Next]_vars

(***************************************************************************)
(* The rounds of a tournament whose roster is registered: TournamentRound  *)
(* alone, on rosters of 2 and of SwissPlayers players                      *)
(***************************************************************************)
SwissRosters ==
    {[i \in 1..n |-> i] : n \in {m \in 2..SwissPlayers : m % 2 = 0}}

InitSwiss ==
    /\ disk \in {Save([Tournament(r) EXCEPT !.players = ps]) :
                    r \in RoundCounts, ps \in SwissRosters}
    /\ mem = LoadControllers({"rounds"})
    /\ registry = 1..SwissPlayers
    /\ cur = {}
    /\ outcome = Out("init", "loaded")

NextSwiss ==
    \/ StartTournament
    \/ StartNextRoundCtl
    \/ EnterScoresCurrentRound

SpecSwiss == InitSwiss /\ [][NextSwiss]_vars

(***************************************************************************)
(* A tournament of FinalPlayers players played to its end by               *)
(* TournamentRound, for the outcome of random.shuffle drawn below          *)
(***************************************************************************)
\* the outcome of random.shuffle(s) drawn: the last item of s moved to the
\* front
DrawnShuffle(s) ==
    IF s = <<>> THEN {s}
    ELSE {<<s[Len(s)]>> \o SubSeq(s, 1, Len(s) - 1)}

\* _shuffle_equal_points_groups for the drawn outcomes
RECURSIVE DrawnEqualPointsGroups(_, _)
DrawnEqualPointsGroups(s, pts) ==
    IF s = <<>> THEN {<<>>}
    ELSE LET j == RunEnd(s, pts, 1, 2)
         IN {a \o b : a \in DrawnShuffle(SubSeq(s, 1, j - 1)),
                      b \in DrawnEqualPointsGroups(SubSeq(s, j, Len(s)), pts)}

\* _prepare_players_order for the drawn outcomes
DrawnOrders(t) ==
    IF t.current_round_index = 0 THEN DrawnShuffle(t.players)
    ELSE DrawnEqualPointsGroups(SortByPointsDesc(t.players, t.points), t.points)

FinalStartTournament ==
    /\ StartTournament
    /\ outcome'.msg = "tournament_started"
          => mem'["rounds"].players \in DrawnOrders(Load(disk))

FinalStartNextRound ==
    /\ StartNextRoundCtl
    /\ outcome'.msg = "round_started"
          => mem'["rounds"].players \in DrawnOrders(Load(disk))

InitFinal ==
    /\ disk = Save([Tournament(FinalRounds) EXCEPT
                        !.players = [i \in 1..FinalPlayers |-> i]])
    /\ mem = LoadControllers({"rounds"})
    /\ registry = 1..FinalPlayers
    /\ cur = {}
    /\ outcome = Out("init", "loaded")

NextFinal ==
    \/ FinalStartTournament
    \/ FinalStartNextRound
    \/ EnterScoresCurrentRound

SpecFinal == InitFinal /\ [][NextFinal]_vars

(***************************************************************************)
(* The tournament menu and the reports menu: TournamentRound and           *)
(* TournamentReports, each with its own tournament object                  *)
(***************************************************************************)
\* ConsoleView.show_leaderboard sorting tournament.players in place
\* (list.sort) instead of sorted()
LeaderboardCallInPlace(t) ==
    [t |-> [t EXCEPT !.players = ShowLeaderboard(t)], ordered |-> ShowLeaderboard(t)]

\* ConsoleView.show_leaderboard(tournament): the tournament after the call
\* and the list printed; sorted() builds a new list
LeaderboardCall(t) == [t |-> t, ordered |-> ShowLeaderboard(t)]

\* TournamentReports.show_leaderboard
ReportsShowLeaderboard ==
    LET t == Load(disk)
    IN /\ UNCHANGED <<disk, registry, cur>>
       /\ IF t.status = NotStarted
          THEN /\ mem' = [mem EXCEPT !["reports"] = t]
               /\ outcome' = Out("show_leaderboard", "none_started")
          ELSE /\ mem' = [mem EXCEPT !["reports"] = LeaderboardCall(t).t]
               /\ outcome' = Out("show_leaderboard", "shown")

InitReports ==
    /\ disk \in {Save([Tournament(r) EXCEPT !.players = ps]) :
                    r \in RoundCounts, ps \in SwissRosters}
    /\ mem = LoadControllers({"rounds", "reports"})
    /\ registry = 1..SwissPlayers
    /\ cur = {}
    /\ outcome = Out("init", "loaded")

NextReports ==
    \/ StartTournament
    \/ StartNextRoundCtl
    \/ EnterScoresCurrentRound
    \/ ReportsShowLeaderboard

SpecReports == InitReports /\ [][NextReports]_vars

(***************************************************************************)
(* The combined TournamentController (tournament_controller_main.py): one  *)
(* object, which loads the file when it is built and on reload_tournaments *)
(***************************************************************************)
\* Tournament.load takes the roster from the registry it has just loaded
RosterIds(t) == {t.players[i] : i \in 1..Len(t.players)}

\* TournamentControllerBase.__init__, and tournament_utils.reload_tournaments
TcLoad ==
    /\ mem' = LoadControllers({"tc"})
    /\ cur' = RosterIds(Load(disk))
    /\ outcome' = Out("init", "loaded")
    /\ UNCHANGED <<disk, registry>>

TcModifyTournament == ModifyTournamentOn("tc")

TcAddPlayers == AddPlayersOn("tc")

TcRemovePlayers == RemovePlayersOn("tc")

\* tournament_start.py
TcStartTournament ==
    LET t == mem["tc"]
    IN /\ UNCHANGED <<registry, cur>>
       /\ IF CanStartTournament(t) # "ok" THEN Refuse("tc", t, "start_tournament", CanStartTournament(t))
          ELSE LaunchTournament("tc", t)

\* tournament_scores.py
TcEnterScoresCurrentRound ==
    LET t == mem["tc"]
    IN /\ UNCHANGED <<registry, cur>>
       /\ IF CanEnterScores(t) # "ok" THEN Refuse("tc", t, "enter_scores", CanEnterScores(t))
          ELSE IF t.rounds[Len(t.rounds)].closed
          THEN Refuse("tc", t, "enter_scores", "round_already_played")
          ELSE \E results \in CollectScores(t) :
                  LET t1 == RecordResults(t, results)
                  IN /\ mem' = [mem EXCEPT !["tc"] = t1]
                     /\ disk' = Save(t1)
                     /\ outcome' = Out("enter_scores", "scores_recorded")

\* tournament_next_round.py
TcStartNextRound ==
    LET t == mem["tc"]
    IN /\ UNCHANGED <<registry, cur>>
       /\ IF t.status = Finished THEN Refuse("tc", t, "start_next_round", "finished")
          ELSE IF LastRoundOpen(t) THEN Refuse("tc", t, "start_next_round", "round_open")
          ELSE IF t.current_round_index >= t.total_rounds
          THEN Refuse("tc", t, "start_next_round", "rounds_exhausted")
          ELSE IF ~StartNextRoundAllowed(t) THEN Refuse("tc", t, "start_next_round", "ValueError")
          ELSE \E t1 \in StartNextRound(t) :
                  /\ mem' = [mem EXCEPT !["tc"] = t1]
                  /\ disk' = Save(t1)
                  /\ outcome' = Out("start_next_round", "round_started")

InitTC ==
    /\ disk \in {Save(Tournament(r)) : r \in RoundCounts}
    /\ mem = LoadControllers({"tc"})
    /\ registry = 1..NumPlayers
    /\ cur = {}
    /\ outcome = Out("init", "loaded")

NextTC ==
    \/ TcLoad
    \/ TcModifyTournament
    \/ TcAddPlayers
    \/ TcRemovePlayers
    \/ TcStartTournament
    \/ TcEnterScoresCurrentRound
    \/ TcStartNextRound

SpecTC == InitTC /\ [][NextTC]_vars

(***************************************************************************)
(* models/tournament.py: record_results called with any list of entries    *)
(***************************************************************************)
\* the index values a caller passes for a list of length n: 0..n-1, the
\* negative index -1, and n, one past the end
PyIndices(n) == (0 - 1)..n

\* list[i] of Python on a list of length n: the position read, or 0 where
\* Python raises IndexError
PyIndex(n, i) ==
    IF i >= 0 /\ i < n THEN i + 1
    ELSE IF i < 0 /\ i >= 0 - n THEN n + i + 1
    ELSE 0

\* the for loop of record_results: each entry is applied as soon as it is
\* read, and the loop stops at the first entry whose lookup raises
RECURSIVE RecordResultsLoop(_, _)
RecordResultsLoop(t, results) ==
    IF results = <<>> THEN [t |-> t, raised |-> FALSE]
    ELSE LET e == Head(results)
             r == PyIndex(Len(t.rounds), e[1])
             m == IF r = 0 THEN 0 ELSE PyIndex(Len(t.rounds[r].matches), e[2])
         IN IF r = 0 \/ m = 0 THEN [t |-> t, raised |-> TRUE]
            ELSE RecordResultsLoop(ApplyResults(t, <<<<r, m, e[3], e[4]>>>>),
                                   Tail(results))

\* record_results as a whole: the loop, the close of rounds[cri - 1], the
\* end test; an exception leaves the object as it is at that point
RecordResultsCall(t, results) ==
    LET l == RecordResultsLoop(t, results)
        c == PyIndex(Len(l.t.rounds), l.t.current_round_index - 1)
        t2 == [l.t EXCEPT !.rounds[c] = RoundClose(@)]
    IN IF l.raised \/ c = 0 THEN [t |-> l.t, raised |-> TRUE]
       ELSE [t |-> IF t2.current_round_index >= t2.total_rounds
                   THEN [t2 EXCEPT !.status = Finished]
                   ELSE t2,
             raised |-> FALSE]

\* the entries (num_round, num_match, score1, score2) a caller may pass
RawEntries(t) ==
    {<<r, m, sc[1], sc[2]>> : r \in PyIndices(Len(t.rounds)),
                              m \in PyIndices(Len(t.players) \div 2),
                              sc \in ValidScores}

RawResults(t) ==
    UNION {[1..n -> RawEntries(t)] : n \in 0..MaxEntries}

\* a call tournament.record_results(results) on a tournament just loaded
CallRecordResults ==
    LET t == mem["tc"]
    IN /\ t = Load(disk)
       /\ \E results \in RawResults(t) :
             LET res == RecordResultsCall(t, results)
             IN /\ mem' = [mem EXCEPT !["tc"] = res.t]
                /\ outcome' = Out("record_results",
                                  IF res.raised THEN "IndexError" ELSE "recorded")
       /\ UNCHANGED <<disk, registry, cur>>

NextRecord ==
    \/ TcLoad
    \/ TcAddPlayers
    \/ TcStartTournament
    \/ TcStartNextRound
    \/ CallRecordResults

SpecRecord == InitTC /\ [][NextRecord]_vars

(***************************************************************************)
(* Properties                                                              *)
(***************************************************************************)
\* the tournament objects of the controllers
Objects == {mem[c] : c \in DOMAIN mem}

LastRoundClosed(t) == t.rounds # <<>> /\ t.rounds[Len(t.rounds)].closed

FinishedIff(t) ==
    (t.status = Finished)
        <=> (t.current_round_index = t.total_rounds /\ LastRoundClosed(t))

\* C1: in every reachable state, in the file and in every controller's
\* object, the status is Finished exactly when current_round_index equals
\* total_rounds and the last round is closed.
C1_FinishedIffAllRoundsPlayed ==
    /\ FinishedIff(disk)
    /\ \A t \in Objects : FinishedIff(t)

\* a step of enter_scores_current_round that recorded the results of the
\* open round: the call number current_round_index of record_results
RecordStep == outcome'.op = "enter_scores" /\ outcome'.msg = "scores_recorded"

C2_WitnessEarlier ==
    /\ outcome = Out("enter_scores", "scores_recorded")
    /\ disk.total_rounds = 2
    /\ disk.current_round_index = 1
    /\ disk.status = InProgress

\* the pairs of ids stored in a pairing history, whatever their order
HistoryPairs(history) == {{history[i].a, history[i].b} : i \in 1..Len(history)}

\* the ids in the matches ms from match number i on
Unpaired(ms, i) == UNION {{ms[j].p1, ms[j].p2} : j \in i..Len(ms)}

\* C3: every pair of a round generated after round 1 was absent from the
\* pairing history as it stood before the generation, unless every player
\* still unpaired when its first player was paired had already faced him.
C3_NoRematchUnlessForced ==
    [][outcome' = Out("start_next_round", "round_started") =>
          LET h == HistoryPairs(disk.history)
              ms == disk'.rounds[Len(disk'.rounds)].matches
          IN \A i \in 1..Len(ms) :
                \/ {ms[i].p1, ms[i].p2} \notin h
                \/ \A q \in Unpaired(ms, i) \ {ms[i].p1} : {ms[i].p1, q} \in h]_vars

\* the number of entries of the sequence s that are p
Count(s, p) == Cardinality({i \in 1..Len(s) : s[i] = p})

\* the players of the matches ms, in match order
Seats(ms) == [k \in 1..(2 * Len(ms)) |->
                 IF k % 2 = 1 THEN ms[(k + 1) \div 2].p1 ELSE ms[k \div 2].p2]

\* half as many matches as roster entries, every roster player in exactly
\* one match and nobody else in any
ExactlyOnce(ms, players) ==
    /\ 2 * Len(ms) = Len(players)
    /\ \A p \in PlayerIds :
          Count(Seats(ms), p) = (IF Count(players, p) > 0 THEN 1 ELSE 0)

EveryRoundExactlyOnce(t) ==
    \A r \in 1..Len(t.rounds) : ExactlyOnce(t.rounds[r].matches, t.players)

\* C4: every round, in the file and in every controller's object, has half
\* as many matches as the roster has players, and every roster player is in
\* exactly one of them, none twice and none omitted.
C4_EveryPlayerExactlyOnce ==
    /\ EveryRoundExactlyOnce(disk)
    /\ \A t \in Objects : EveryRoundExactlyOnce(t)

\* the matches ms hold each entry of the roster once
Partitions(ms, players) ==
    /\ 2 * Len(ms) = Len(players)
    /\ \A p \in PlayerIds : Count(Seats(ms), p) = Count(players, p)

EveryRoundPartitions(t) ==
    \A r \in 1..Len(t.rounds) : Partitions(t.rounds[r].matches, t.players)

\* C4, the pairing step alone: the matches of every round hold every entry
\* of the roster once, so a player who is in the roster once is in one match
RoundsPartitionRosterEntries ==
    /\ EveryRoundPartitions(disk)
    /\ \A t \in Objects : EveryRoundPartitions(t)

OnlyLastRoundOpen(t) ==
    \A i \in 1..(Len(t.rounds) - 1) : t.rounds[i].closed

\* C5: in every reachable state, in the file and in every controller's
\* object, every round but the last is closed: at most one round is open and
\* no round was appended behind an open one.
C5_AtMostOneOpenRound ==
    /\ OnlyLastRoundOpen(disk)
    /\ \A t \in Objects : OnlyLastRoundOpen(t)

\* a second round is open behind a closed first round
C5_Witness ==
    /\ Len(disk.rounds) = 2
    /\ disk.rounds[1].closed
    /\ ~disk.rounds[2].closed

HasOpenRound(t) == \E i \in 1..Len(t.rounds) : ~t.rounds[i].closed

\* a step of TournamentRound.start_next_round
NextRoundRequest == outcome'.op = "start_next_round"

\* C6: a start_next_round request made while a round of the saved
\* tournament is open, or while it is Finished, is refused with a message
\* and leaves current_round_index and rounds as they were, in the file and in
\* the controller's object.
C6_RefusedWhenOpenOrFinished ==
    [][(NextRoundRequest /\ (HasOpenRound(disk) \/ disk.status = Finished)) =>
          /\ outcome'.msg =
                (IF disk.status = Finished THEN "none_in_progress" ELSE "round_open")
          /\ disk'.current_round_index = disk.current_round_index
          /\ disk'.rounds = disk.rounds
          /\ mem'["rounds"].current_round_index = disk.current_round_index
          /\ mem'["rounds"].rounds = disk.rounds]_vars

\* a request has just been refused because round 1 is open
C6_Witness ==
    /\ outcome = Out("start_next_round", "round_open")
    /\ HasOpenRound(disk)
    /\ disk.current_round_index = 1

\* a request has just been refused because the tournament is Finished
C6_WitnessFinished ==
    /\ outcome = Out("start_next_round", "none_in_progress")
    /\ disk.status = Finished

\* C7: a start_next_round request made while a round is open, or while
\* current_round_index equals total_rounds, changes nothing: the file is the
\* same and the controller's object is the tournament of the file.
C7_GuardViolationMutatesNothing ==
    [][(NextRoundRequest
            /\ (HasOpenRound(disk) \/ disk.current_round_index = disk.total_rounds)) =>
          /\ disk' = disk
          /\ mem'["rounds"] = Load(disk)]_vars

\* which guard of start_next_round the tournament t fails, if any
GuardFailure(t) ==
    IF t.status = Finished THEN "finished"
    ELSE IF HasOpenRound(t) THEN "round_open"
    ELSE IF t.current_round_index >= t.total_rounds THEN "rounds_exhausted"
    ELSE "none"

\* C8: a start_next_round request that fails a guard reports something,
\* which is not the report of a success, and the report tells the three
\* failures apart: the open-round message is given for an open round only and
\* the nothing-in-progress message for a Finished tournament only.
C8_GuardFailuresDistinct ==
    [][(NextRoundRequest /\ GuardFailure(disk) # "none") =>
          /\ outcome'.msg \notin {"silent", "round_started"}
          /\ outcome'.msg = "round_open" <=> GuardFailure(disk) = "round_open"
          /\ outcome'.msg = "none_in_progress" <=> GuardFailure(disk) = "finished"]_vars

FinishedStays(t, u) ==
    t.status = Finished =>
        /\ u.status = Finished
        /\ u.rounds = t.rounds
        /\ u.players = t.players

\* C9: once the tournament is Finished, in the file or in a controller's
\* object, no step changes its status, its rounds (no round appended, no
\* result recorded) or its roster.
C9_FinishedIsTerminal ==
    [][/\ FinishedStays(disk, disk')
       /\ \A c \in DOMAIN mem : FinishedStays(mem[c], mem'[c])]_vars

Rank(status) ==
    IF status = NotStarted THEN 0 ELSE IF status = InProgress THEN 1 ELSE 2

\* C10: the status never moves backward, in the file or in a controller's
\* object: no step takes it from InProgress to NotStarted or from Finished
\* to another status.
C10_StatusOnlyForward ==
    [][/\ Rank(disk'.status) >= Rank(disk.status)
       /\ \A c \in DOMAIN mem : Rank(mem'[c].status) >= Rank(mem[c].status)]_vars

IndexIsRoundCount(t) == t.current_round_index = Len(t.rounds)

SameRoster(r, q) == \A p \in PlayerIds : Count(r, p) = Count(q, p)

\* C12: once the saved tournament is not NotStarted, a step of
\* manage_players_in_tournament changes the roster neither in the file nor in
\* the object of the controller that ran it.
C12_RosterFrozenAfterStart ==
    [][(outcome'.op = "manage_players" /\ disk.status # NotStarted) =>
          /\ SameRoster(disk'.players, disk.players)
          /\ SameRoster(mem'["players"].players, mem["players"].players)]_vars

NoDuplicate(players) == \A p \in PlayerIds : Count(players, p) <= 1

\* C13: while the tournament is NotStarted, no player identifier is in its
\* roster more than once, in the file and in every controller's object.
C13_RosterHasNoDuplicate ==
    /\ disk.status = NotStarted => NoDuplicate(disk.players)
    /\ \A t \in Objects : t.status = NotStarted => NoDuplicate(t.players)

\* C14: a start_tournament request on a NotStarted tournament whose roster
\* is empty or of odd size is refused with the message of its case, and
\* leaves the file as it was and the controller's object equal to the file:
\* status NotStarted, no round, same pairing history.
C14_InvalidRosterRefused ==
    [][(/\ outcome'.op = "start_tournament"
        /\ disk.status = NotStarted
        /\ (disk.players = <<>> \/ Len(disk.players) % 2 = 1)) =>
          /\ outcome'.msg =
                (IF disk.players = <<>> THEN "no_players" ELSE "odd_roster")
          /\ disk' = disk
          /\ mem'["rounds"] = Load(disk)
          /\ mem'["rounds"].status = NotStarted
          /\ mem'["rounds"].rounds = <<>>]_vars

\* a start has just been refused for a roster of one player
C14_Witness ==
    /\ outcome = Out("start_tournament", "odd_roster")
    /\ disk.status = NotStarted
    /\ Len(disk.players) = 1

\* a start has just been refused for an empty roster
C14_WitnessEmpty ==
    /\ outcome = Out("start_tournament", "no_players")
    /\ disk.status = NotStarted
    /\ disk.players = <<>>

EvenRoster(players) == Len(players) >= 2 /\ Len(players) % 2 = 0

\* after a successful start: in progress, one round, open, index 1
JustStarted(t) ==
    /\ t.status = InProgress
    /\ Len(t.rounds) = 1
    /\ ~t.rounds[1].closed
    /\ t.current_round_index = 1

HasRoundsOnlyIfStarted(t) ==
    t.rounds # <<>> => EvenRoster(t.players) /\ t.status # NotStarted

\* C15: start_tournament succeeds only on a NotStarted tournament with an
\* even roster of at least 2 players, and then leaves it InProgress with
\* exactly one round, open, and current_round_index 1; and in every reachable
\* state a tournament that holds a round has an even roster of at least 2
\* players and is not NotStarted.
C15_StartOnlyWhenReady ==
    /\ [][outcome' = Out("start_tournament", "tournament_started") =>
             /\ disk.status = NotStarted
             /\ EvenRoster(disk.players)
             /\ SameRoster(disk'.players, disk.players)
             /\ JustStarted(disk')
             /\ \A c \in DOMAIN mem : mem'[c] # mem[c] => JustStarted(mem'[c])]_vars
    /\ [](/\ HasRoundsOnlyIfStarted(disk)
          /\ \A t \in Objects : HasRoundsOnlyIfStarted(t))

\* the greedy scan over the ordered pool, with h the set of pairs already
\* played: the pairs <<p1, p2>> in the order they are made
RECURSIVE GreedyScan(_, _)
GreedyScan(pool, h) ==
    IF pool = <<>> THEN <<>>
    ELSE LET p1 == Head(pool)
             rest == Tail(pool)
             fresh == {k \in 1..Len(rest) : {p1, rest[k]} \notin h}
             k == IF fresh # {} THEN Min(fresh) ELSE 1
         IN <<<<p1, rest[k]>>>>
                \o GreedyScan(RemoveAt(rest, k), h \cup {{p1, rest[k]}})

PairsOf(ms) == [i \in 1..Len(ms) |-> <<ms[i].p1, ms[i].p2>>]

\* a step that generated a round: start_tournament or start_next_round
RoundGenerated ==
    \/ outcome' = Out("start_tournament", "tournament_started")
    \/ outcome' = Out("start_next_round", "round_started")

\* C16: the matches of a generated round are those of the greedy scan of the
\* ordered roster against the pairing history as it stood before: the first
\* remaining player with the earliest remaining player he has not met, in
\* either orientation, and with the first remaining player only if he has
\* met them all.
C16_PairsAreGreedyScan ==
    [][RoundGenerated =>
          PairsOf(disk'.rounds[Len(disk'.rounds)].matches)
              = GreedyScan(disk'.players, HistoryPairs(disk.history))]_vars

NonIncreasing(players, pts) ==
    \A i \in 1..(Len(players) - 1) : pts[players[i]] >= pts[players[i + 1]]

RoundPairs(rnd) ==
    {{rnd.matches[i].p1, rnd.matches[i].p2} : i \in 1..Len(rnd.matches)}

\* C18: with 4 players and total_rounds = 2, the tournament is InProgress
\* once the results of round 1 are recorded, and round 2 holds neither of
\* the two pairs of round 1.
C18_FourPlayersNoRematch ==
    (Len(disk.players) = 4 /\ disk.total_rounds = 2) =>
        /\ (Len(disk.rounds) = 1 /\ disk.rounds[1].closed)
              => disk.status = InProgress
        /\ Len(disk.rounds) = 2
              => RoundPairs(disk.rounds[2]) \cap RoundPairs(disk.rounds[1]) = {}

\* the scores stored for player p in the matches ms from match i on
RECURSIVE MatchScoreSum(_, _, _)
MatchScoreSum(ms, i, p) ==
    IF i > Len(ms) THEN 0
    ELSE (IF ms[i].p1 = p THEN ms[i].s1 ELSE 0)
            + (IF ms[i].p2 = p THEN ms[i].s2 ELSE 0)
            + MatchScoreSum(ms, i + 1, p)

\* the scores stored for player p in the rounds rnds from round r on
RECURSIVE ScoreSum(_, _, _)
ScoreSum(rnds, r, p) ==
    IF r > Len(rnds) THEN 0
    ELSE MatchScoreSum(rnds[r].matches, 1, p) + ScoreSum(rnds, r + 1, p)

PointsAreScoreSums(t) ==
    /\ \A i \in 1..Len(t.players) :
          t.points[t.players[i]] = ScoreSum(t.rounds, 1, t.players[i])
    /\ RecalculatePoints(t) = t

RecordFailed == outcome'.op = "record_results" /\ outcome'.msg = "IndexError"

\* C20: a record_results call that fails with an index error has changed no
\* match score, no points, no round and no status, whatever entries came
\* before the failing one.
C20_RecordResultsAllOrNothing ==
    [][RecordFailed => mem' = mem /\ disk' = disk]_vars

ClosedRoundKept(t, u) ==
    \A r \in 1..Len(t.rounds) :
        (t.rounds[r].closed /\ r <= Len(u.rounds)) => u.rounds[r] = t.rounds[r]

\* C21: once a round of the saved tournament is closed, no operation
\* changes its end or the scores of its matches: as long as the round
\* exists it is the same round.
C21_ClosedRoundImmutable == [][ClosedRoundKept(disk, disk')]_vars

ClosedRoundsScored(t) ==
    \A r \in 1..Len(t.rounds) :
        t.rounds[r].closed =>
            \A i \in 1..Len(t.rounds[r].matches) :
                <<t.rounds[r].matches[i].s1, t.rounds[r].matches[i].s2>>
                    \in ValidScores

\* C22: in every closed round, of the saved tournament and of every
\* controller's object, each match holds a win, a loss or a draw.
C22_ClosedRoundsScored ==
    ClosedRoundsScored(disk) /\ \A t \in Objects : ClosedRoundsScored(t)

\* two closed rounds of two matches each are saved
C22_Witness ==
    /\ Len(disk.rounds) = 2
    /\ \A r \in 1..2 : disk.rounds[r].closed /\ Len(disk.rounds[r].matches) = 2

\* enter_scores_current_round has just recorded the last round and has
\* announced the winner of the tournament of the tournament menu
Finalised ==
    /\ outcome = Out("enter_scores", "scores_recorded")
    /\ mem["rounds"].status = Finished

\* the positions <<round, match>> of the decisive matches of t played
\* between two players of the set top
DecisiveDuels(t, top) ==
    {rm \in (1..Len(t.rounds)) \X (1..(FinalPlayers \div 2)) :
        /\ rm[2] <= Len(t.rounds[rm[1]].matches)
        /\ LET m == t.rounds[rm[1]].matches[rm[2]]
           IN {m.p1, m.p2} \subseteq top /\ m.s1 # m.s2}

Earlier(a, b) == a[1] < b[1] \/ (a[1] = b[1] /\ a[2] <= b[2])

Victor(m) == IF m.s1 > m.s2 THEN m.p1 ELSE m.p2

FirstDecisiveDuelWins(t) ==
    LET top == SeqSet(TopPlayers(t))
        duels == DecisiveDuels(t, top)
        first == CHOOSE a \in duels : \A b \in duels : Earlier(a, b)
    IN (Cardinality(top) > 1 /\ duels # {})
          => Winner(t) = Victor(t.rounds[first[1]].matches[first[2]])

\* C23: when several players share the top score, the announced winner is
\* the victor of the first decisive match, in round order then match order,
\* played between two of them.
C23_FirstDecisiveDuelWins == Finalised => FirstDecisiveDuelWins(mem["rounds"])

TwoTiedOneDuel(t) ==
    /\ Len(TopPlayers(t)) = 2
    /\ Cardinality(DecisiveDuels(t, SeqSet(TopPlayers(t)))) = 1

DuelVictor(t) ==
    LET rm == CHOOSE a \in DecisiveDuels(t, SeqSet(TopPlayers(t))) : TRUE
    IN Victor(t.rounds[rm[1]].matches[rm[2]])

\* C24: when exactly two players share the top score and exactly one
\* decisive match was played between them, the announced winner is the
\* victor of that match.
C24_DuelVictorWins ==
    (Finalised /\ TwoTiedOneDuel(mem["rounds"]))
        => Winner(mem["rounds"]) = DuelVictor(mem["rounds"])

\* the victor of the head-to-head is the second of the two by name
C24_Witness ==
    /\ Finalised
    /\ TwoTiedOneDuel(mem["rounds"])
    /\ DuelVictor(mem["rounds"]) # AlphabeticalFirst(TopPlayers(mem["rounds"]))

TiedWithoutDuel(t) ==
    /\ Len(TopPlayers(t)) > 1
    /\ DecisiveDuels(t, SeqSet(TopPlayers(t))) = {}

FirstByName(S) == CHOOSE p \in S : \A q \in S : NameKey[p] <= NameKey[q]

\* C25: when several players share the top score and no decisive match was
\* played between two of them, the announced winner is the first of them in
\* the order of the names.
C25_FirstByNameWins ==
    (Finalised /\ TiedWithoutDuel(mem["rounds"]))
        => Winner(mem["rounds"]) = FirstByName(SeqSet(TopPlayers(mem["rounds"])))

\* two of the tied players drew against each other, and the first of them
\* by name is not the first of them in the roster
C25_Witness ==
    LET t == mem["rounds"]
        top == SeqSet(TopPlayers(t))
    IN /\ Finalised
       /\ TiedWithoutDuel(t)
       /\ FirstByName(top) # TopPlayers(t)[1]
       /\ \E r \in 1..Len(t.rounds) : \E i \in 1..Len(t.rounds[r].matches) :
             {t.rounds[r].matches[i].p1, t.rounds[r].matches[i].p2} \subseteq top

HoldsMaximum(t, w) ==
    /\ w \in SeqSet(t.players)
    /\ \A p \in SeqSet(t.players) : t.points[w] >= t.points[p]

SoleLeader(t, w) ==
    \A p \in SeqSet(t.players) : p # w => t.points[p] < t.points[w]

\* C26: the announced winner holds the maximum of the points of the roster,
\* and a player who alone holds that maximum is the announced winner.
C26_WinnerHoldsMaximum ==
    Finalised =>
        /\ HoldsMaximum(mem["rounds"], Winner(mem["rounds"]))
        /\ \A w \in SeqSet(mem["rounds"].players) :
              SoleLeader(mem["rounds"], w) => Winner(mem["rounds"]) = w

\* a player leads alone although he lost a match, and is not the first of
\* the roster by name
C26_Witness ==
    LET t == mem["rounds"]
    IN /\ Finalised
       /\ \E w \in SeqSet(t.players) :
             /\ SoleLeader(t, w)
             /\ w # FirstByName(SeqSet(t.players))
             /\ \E r \in 1..Len(t.rounds) : \E i \in 1..Len(t.rounds[r].matches) :
                   LET m == t.rounds[r].matches[i]
                   IN w \in {m.p1, m.p2} /\ Victor(m) # w /\ m.s1 # m.s2

\* C27: saving the tournament a controller holds and loading the file
\* yields the same tournament: status, index, total_rounds, roster, rounds,
\* pairing history and points.
C27_SaveLoadRoundTrip == \A t \in Objects : Load(Save(t)) = t

\* C28: every pair of the saved tournament's pairing history is still in
\* it after every operation.
C28_HistoryOnlyGrows ==
    [][HistoryPairs(disk.history) \subseteq HistoryPairs(disk'.history)]_vars

Position(s, p) == Min({i \in 1..Len(s) : s[i] = p})

Before(s, p, q) == Position(s, p) < Position(s, q)

\* two players level on points in t and in u are in the same order in the
\* two leaderboards
TieOrderKept(t, u) ==
    \A p, q \in SeqSet(t.players) :
        (p # q /\ t.points[p] = t.points[q] /\ u.points[p] = u.points[q])
            => (Before(ShowLeaderboard(t), p, q)
                    <=> Before(ShowLeaderboard(u), p, q))

\* C29: the leaderboard of the saved tournament is the roster in
\* non-increasing order of points, and once the tournament is started two
\* players level on points keep their order in it, that of their
\* registration, however many rounds are paired.
C29_LeaderboardTiesInRosterOrder ==
    /\ [](NonIncreasing(ShowLeaderboard(Load(disk)), Load(disk).points))
    /\ [][(disk.status # NotStarted /\ SeqSet(disk'.players) = SeqSet(disk.players))
             => TieOrderKept(Load(disk), Load(disk'))]_vars

LeaderboardShown == outcome'.op = "show_leaderboard"

\* C30: showing the leaderboard leaves the file as it is, and the tournament
\* it was computed on is the tournament as loaded from the file: same
\* roster order, points, status, rounds and history; no other controller's
\* tournament changes.
C30_LeaderboardReadOnly ==
    [][LeaderboardShown =>
          /\ disk' = disk
          /\ mem'["reports"] = Load(disk)
          /\ mem'["rounds"] = mem["rounds"]]_vars

\* a leaderboard has been shown whose order is not the order of the roster
C30_Witness ==
    /\ outcome = Out("show_leaderboard", "shown")
    /\ ShowLeaderboard(mem["reports"]) # mem["reports"].players

IndexWithinTotal(t) == t.current_round_index <= t.total_rounds

\* C31: the saved tournament and every controller's tournament have
\* current_round_index <= total_rounds, and a step that generates a round
\* starts from a tournament with current_round_index < total_rounds.
C31_IndexWithinTotal ==
    /\ [](IndexWithinTotal(disk) /\ \A t \in Objects : IndexWithinTotal(t))
    /\ [][Len(disk'.rounds) > Len(disk.rounds)
             => disk.current_round_index < disk.total_rounds]_vars

PoolEmptied(ms, players) ==
    /\ 2 * Len(ms) = Len(players)
    /\ \A p \in PlayerIds : Count(Seats(ms), p) = Count(players, p)

AlreadyPlayed(a, b, history) ==
    DuoInHistory(a, b, history) \/ DuoInHistory(b, a, history)

NextPairings(t) == {x.rounds[Len(x.rounds)].matches : x \in StartNextRound(t)}

SamePairingAfterReload(t) ==
    /\ \A a, b \in PlayerIds :
          AlreadyPlayed(a, b, t.history)
              <=> AlreadyPlayed(a, b, Load(Save(t)).history)
    /\ StartNextRoundAllowed(t)
          => NextPairings(t) = NextPairings(Load(Save(t)))

\* C33: for the tournament a controller holds, the 'already played' test
\* answers the same for every pair on the tournament saved and reloaded as
\* on the tournament itself, and both give the same possible next rounds.
C33_RematchTestSurvivesReload == \A t \in Objects : SamePairingAfterReload(t)

\* C34: the file after modify_tournament is the file before it with, at
\* most, another total_rounds: status, index, rounds, roster and pairing
\* history are those saved before the edit.
C34_ModifyKeepsProgress ==
    [][outcome'.op = "modify_tournament"
          => disk' = [disk EXCEPT !.total_rounds = disk'.total_rounds]]_vars

\* enter_scores_current_round would record results on t
RecordEnabled(t) == t.status = InProgress /\ LastRoundOpen(t)

\* start_next_round would generate a round on t
NextRoundEnabled(t) ==
    /\ t.status = InProgress
    /\ LastRoundClosed(t)
    /\ t.current_round_index < t.total_rounds
    /\ StartNextRoundAllowed(t)

\* C35: a saved tournament that is in progress can make progress: its last
\* round is open and results can be recorded, or its last round is closed,
\* rounds remain and the next round can be generated.
C35_InProgressCanProgress ==
    Load(disk).status = InProgress
        => RecordEnabled(Load(disk)) \/ NextRoundEnabled(Load(disk))

NoSelfMatch(t) ==
    \A r \in 1..Len(t.rounds) : \A i \in 1..Len(t.rounds[r].matches) :
        t.rounds[r].matches[i].p1 # t.rounds[r].matches[i].p2

\* C36: in every round of the saved tournament and of every controller's
\* tournament the two players of each match have different ids.
C36_NoSelfMatch == NoSelfMatch(disk) /\ \A t \in Objects : NoSelfMatch(t)

RECURSIVE MatchCount(_)
MatchCount(rnds) ==
    IF rnds = <<>> THEN 0 ELSE Len(Head(rnds).matches) + MatchCount(Tail(rnds))

HistoryMatchesRounds(t) ==
    /\ Len(t.history) = MatchCount(t.rounds)
    /\ \A r \in 1..Len(t.rounds) : \A i \in 1..Len(t.rounds[r].matches) :
          \E h \in 1..Len(t.history) :
              /\ t.history[h].a = t.rounds[r].matches[i].p1
              /\ t.history[h].b = t.rounds[r].matches[i].p2

\* C37: in the saved tournament and in every controller's tournament the
\* pairing history has as many entries as there are matches in all the
\* rounds, and holds the pair of every match.
C37_HistoryMatchesRounds ==
    HistoryMatchesRounds(disk) /\ \A t \in Objects : HistoryMatchesRounds(t)

\* two rounds of two matches are saved, and a pair of the first round is
\* paired again in the second: the history holds it twice
C37_Witness ==
    /\ Len(disk.rounds) = 2
    /\ Len(disk.history) = 4
    /\ RoundPairs(disk.rounds[1]) \cap RoundPairs(disk.rounds[2]) # {}

RECURSIVE RosterPoints(_, _)
RosterPoints(players, pts) ==
    IF players = <<>> THEN 0
    ELSE pts[Head(players)] + RosterPoints(Tail(players), pts)

ClosedRounds(t) == Cardinality({r \in 1..Len(t.rounds) : t.rounds[r].closed})

\* one point per match: with the scores doubled, two per match, that is one
\* per roster entry and closed round
PointsConserved(t) ==
    RosterPoints(t.players, t.points) = Len(t.players) * ClosedRounds(t)

\* C38: in the saved tournament as loaded and in every controller's
\* tournament the points of the roster add up to half the roster size times
\* the number of closed rounds.
C38_PointsConserved ==
    PointsConserved(Load(disk)) /\ \A t \in Objects : PointsConserved(t)


(***************************************************************************)
(* SpecPlayers: the players menu (controllers/player_controller.py) next   *)
(* to the roster management of a tournament that has not started.          *)
(* MainController holds one more controller object,                        *)
(*   "base"    tour_ctrl_base (TournamentControllerBase)                   *)
(* whose _tournaments list is the one update_player_references walks.      *)
(***************************************************************************)
PlayersCtl == MainCtl \cup {"base"}

\* create_player: _ask_unique_national_id accepts an id no player of the
\* registry has; the new Player object is in no roster
CreatePlayer ==
    \E p \in (1..NumPlayers) \ registry :
        /\ registry' = registry \cup {p}
        /\ outcome' = Out("create_player", "created")
        /\ UNCHANGED <<disk, mem, cur>>

\* update_player_references: every tournament of the controller whose
\* roster holds the id is saved from that controller's memory
UpdatePlayerReferences(c, p) ==
    IF \E i \in 1..Len(mem[c].players) : mem[c].players[i] = p
    THEN disk' = Save(mem[c])
    ELSE UNCHANGED disk

\* _player_menu, choice 2: modify_player edits the chosen Player in place
\* and keeps its national id, then modify_and_update refreshes the references
ModifyPlayer ==
    \E p \in registry :
        /\ UpdatePlayerReferences("base", p)
        /\ outcome' = Out("modify_player", "updated")
        /\ UNCHANGED <<mem, registry, cur>>

\* delete_player, confirmed with "o": Player.registry.remove(player) and
\* Player.save_all(); no tournament is read or written
DeletePlayer ==
    \E p \in registry :
        /\ registry' = registry \ {p}
        /\ cur' = cur \ {p}
        /\ outcome' = Out("delete_player", "deleted")
        /\ UNCHANGED <<disk, mem>>

\* _restore_players and _restore_rounds look every stored id up in id_map,
\* the table of the registry just loaded: id_map[nid] needs nid in it
Resolves(t, reg) ==
    /\ \A i \in 1..Len(t.players) : t.players[i] \in reg
    /\ \A r \in 1..Len(t.rounds) : \A m \in 1..Len(t.rounds[r].matches) :
           /\ t.rounds[r].matches[m].p1 \in reg
           /\ t.rounds[r].matches[m].p2 \in reg

\* MainController.__init__ on the files as they are: Tournament.load raises
\* KeyError on an id the registry lacks and _load lets it through, so the
\* controllers are built only when every id resolves
PlayersRestart ==
    /\ Resolves(disk, registry)
    /\ mem' = LoadControllers(PlayersCtl)
    /\ cur' = {}
    /\ outcome' = Out("init", "loaded")
    /\ UNCHANGED <<disk, registry>>

InitPlayers ==
    /\ disk \in {Save(Tournament(r)) : r \in RoundCounts}
    /\ mem = LoadControllers(PlayersCtl)
    /\ registry = 1..NumPlayers
    /\ cur = {}
    /\ outcome = Out("init", "loaded")

NextPlayers ==
    \/ CreatePlayer
    \/ ModifyPlayer
    \/ DeletePlayer
    \/ AddPlayers
    \/ RemovePlayers
    \/ PlayersRestart

SpecPlayers == InitPlayers /\ [][NextPlayers]_vars

\* C39: every player id stored in the saved tournament's roster or matches
\* is the id of a player of the registry, whatever players were created,
\* modified or deleted.
C39_TournamentStaysLoadable == Resolves(disk, registry)

====
